---- MODULE Spec2Model ----
(***************************************************************************)
(* A model of FixedIncomeValuation: the coupon schedule and valuation of   *)
(* bond.py and the calibration front end and yield conversion of           *)
(* discount_curve.py.                                                      *)
(*                                                                         *)
(* Dates are records [year, month, day] with the proleptic Gregorian       *)
(* arithmetic of datetime.date.  Python floats are modelled as exact       *)
(* rationals [n, d] in lowest terms.  Every function of the source is an   *)
(* operator; each specification draws a call's inputs in its Init and      *)
(* applies the function in one action.                                     *)
(***************************************************************************)
EXTENDS Integers, Sequences, FiniteSets, TLC

VARIABLES pc, args, bond, ret, assigned

vars == <<pc, args, bond, ret, assigned>>

(***************************************************************************)
(* Bounds of the model.                                                    *)
(***************************************************************************)
MaxYears == 2
MaxBonds == 2
MaxKnots == 3

(***************************************************************************)
(* Program constants.                                                      *)
(***************************************************************************)
BaseYear == 2020
ExDateOffset == 9
DaysPerYear == 365
DefaultExtensionDays == 100

(***************************************************************************)
(* Rationals in lowest terms with a positive denominator.                  *)
(***************************************************************************)
Abs(x) == IF x < 0 THEN -x ELSE x

RECURSIVE Gcd(_, _)
Gcd(a, b) == IF b = 0 THEN a ELSE Gcd(b, a % b)

R(n, d) ==
    LET s == IF d < 0 THEN -1 ELSE 1
        g == Gcd(Abs(n), Abs(d))
    IN  [n |-> (s * n) \div g, d |-> (s * d) \div g]

RInt(k) == [n |-> k, d |-> 1]
RAdd(a, b) == R(a.n * b.d + b.n * a.d, a.d * b.d)
RSub(a, b) == R(a.n * b.d - b.n * a.d, a.d * b.d)
RMul(a, b) == R(a.n * b.n, a.d * b.d)
RDivInt(a, k) == R(a.n, a.d * k)
RLess(a, b) == a.n * b.d < b.n * a.d
RLeq(a, b) == a.n * b.d <= b.n * a.d

(***************************************************************************)
(* datetime.date: validity, ordinals, weekday, day arithmetic.             *)
(***************************************************************************)
IsLeap(y) == (y % 4 = 0) /\ ((y % 100 # 0) \/ (y % 400 = 0))

DaysInMonth(y, m) ==
    IF m = 2 THEN (IF IsLeap(y) THEN 29 ELSE 28)
    ELSE IF m \in {4, 6, 9, 11} THEN 30 ELSE 31

\* date(y, m, d) raises ValueError unless this holds.
IsValidDate(y, m, d) ==
    /\ y \in 1..9999
    /\ m \in 1..12
    /\ d \in 1..DaysInMonth(y, m)

MkDate(y, m, d) == [year |-> y, month |-> m, day |-> d]

DaysBeforeYear(y) ==
    LET p == y - 1 IN p * 365 + (p \div 4) - (p \div 100) + (p \div 400)

RECURSIVE DaysBeforeMonth(_, _)
DaysBeforeMonth(y, m) ==
    IF m = 1 THEN 0 ELSE DaysBeforeMonth(y, m - 1) + DaysInMonth(y, m - 1)

ToOrdinal(dt) == DaysBeforeYear(dt.year) + DaysBeforeMonth(dt.year, dt.month) + dt.day

RECURSIVE MonthOfDay(_, _, _)
MonthOfDay(y, m, n) ==
    IF n <= DaysInMonth(y, m) THEN MkDate(y, m, n)
    ELSE MonthOfDay(y, m + 1, n - DaysInMonth(y, m))

FromOrdinal(o) ==
    LET n0   == o - 1
        n400 == n0 \div 146097
        r400 == n0 % 146097
        n100 == r400 \div 36524
        r100 == r400 % 36524
        n4   == r100 \div 1461
        r4   == r100 % 1461
        n1   == r4 \div 365
        r1   == r4 % 365
        y    == n400 * 400 + n100 * 100 + n4 * 4 + n1 + 1
    IN  IF n1 = 4 \/ n100 = 4 THEN MkDate(y - 1, 12, 31)
        ELSE MonthOfDay(y, 1, r1 + 1)

\* date.weekday(): Monday is 0, Sunday is 6.
Weekday(dt) == (ToOrdinal(dt) + 6) % 7

\* date + timedelta(days = k)
AddDays(dt, k) == FromOrdinal(ToOrdinal(dt) + k)

\* (a - b).days
DaysBetween(a, b) == ToOrdinal(a) - ToOrdinal(b)

DateLess(a, b) == ToOrdinal(a) < ToOrdinal(b)
DateLeq(a, b) == ToOrdinal(a) <= ToOrdinal(b)

(***************************************************************************)
(* bond.py: Coupon, _business_date, construct_yearly_coupon_series.        *)
(***************************************************************************)
Coupon(amount, ex_date, payment_date) ==
    [ex_date |-> ex_date, payment_date |-> payment_date, coupon_amount |-> amount]

RECURSIVE business_date(_)
business_date(reference_date) ==
    IF Weekday(reference_date) > 4
    THEN business_date(AddDays(reference_date, 1))
    ELSE reference_date

Returned(v) == [kind |-> "returned", value |-> v]
Raised(e) == [kind |-> "raised", error |-> e]

\* The loop with the ex-date taken from the rolled payment date instead of the
\* unrolled coupon date.
RECURSIVE YearlyLoop_ExFromPayment(_, _, _, _)
YearlyLoop_ExFromPayment(coupons, coupon_date, last_pay_date, amount) ==
    IF ~DateLeq(coupon_date, last_pay_date) THEN Returned(coupons)
    ELSE LET payment_date == business_date(coupon_date)
             ex_date == business_date(AddDays(payment_date, -ExDateOffset))
             appended == Append(coupons, Coupon(amount, ex_date, payment_date))
         IN  IF ~IsValidDate(coupon_date.year + 1, coupon_date.month, coupon_date.day)
             THEN Raised("ValueError")
             ELSE YearlyLoop_ExFromPayment(appended,
                             MkDate(coupon_date.year + 1, coupon_date.month, coupon_date.day),
                             last_pay_date, amount)

\* One pass of the while loop of construct_yearly_coupon_series; the step to
\* date(year + 1, month, day) is taken after every append, before the loop
\* condition is evaluated again, and raises ValueError for an invalid date.
RECURSIVE YearlyLoop(_, _, _, _)
YearlyLoop(coupons, coupon_date, last_pay_date, amount) ==
    IF ~DateLeq(coupon_date, last_pay_date) THEN Returned(coupons)
    ELSE LET ex_date == business_date(AddDays(coupon_date, -ExDateOffset))
             payment_date == business_date(coupon_date)
             appended == Append(coupons, Coupon(amount, ex_date, payment_date))
         IN  IF ~IsValidDate(coupon_date.year + 1, coupon_date.month, coupon_date.day)
             THEN Raised("ValueError")
             ELSE YearlyLoop(appended,
                             MkDate(coupon_date.year + 1, coupon_date.month, coupon_date.day),
                             last_pay_date, amount)

construct_yearly_coupon_series(first_pay_date, last_pay_date, rate, principle) ==
    YearlyLoop(<<>>, first_pay_date, last_pay_date, RMul(principle, rate))

(***************************************************************************)
(* bond.py: FixedRateACGB, its price accessors, calculate_dirty_value and  *)
(* construct.                                                              *)
(***************************************************************************)
\* FixedRateACGB.__init__
FixedRateACGB(principle, coupons, maturity) ==
    [kind |-> "bond", principle |-> principle, coupons |-> coupons,
     maturity |-> maturity, market_dirty_price_field |-> RInt(0)]

\* The getter function, def market_value(self).
market_value_fget(self) == self.market_dirty_price_field

\* A setter that leaves the field the getter reads as it was.
market_dirty_price_fset_Silent(self, value) == self

\* The setter function, def market_dirty_price(self, value).
market_dirty_price_fset(self, value) ==
    [self EXCEPT !.market_dirty_price_field = value]

\* The class attributes the two decorators leave behind: @property binds
\* market_value to a property with a getter only; @market_value.setter
\* copies it, adds the setter and binds the copy to market_dirty_price.
ClassProperties ==
    [market_value |-> [fget |-> TRUE, fset |-> FALSE],
     market_dirty_price |-> [fget |-> TRUE, fset |-> TRUE]]

\* value = self.<name>; both properties carry the same getter.
GetAttr(self, name) ==
    IF ClassProperties[name].fget
    THEN Returned(market_value_fget(self))
    ELSE Raised("AttributeError")

\* self.<name> = value; a property without a setter raises AttributeError.
SetAttr(self, name, value) ==
    IF ClassProperties[name].fset
    THEN Returned(market_dirty_price_fset(self, value))
    ELSE Raised("AttributeError")

\* A discount curve: the callables of tests.py, flat or stepping at a cutoff.
FlatCurve(k) == [kind |-> "flat", k |-> k]
StepCurve(cutoff, before, after) ==
    [kind |-> "step", cutoff |-> cutoff, before |-> before, after |-> after]

CurveAt(curve, dt) ==
    IF curve.kind = "flat" THEN curve.k
    ELSE IF DateLess(dt, curve.cutoff) THEN curve.before ELSE curve.after

\* The sum over the generator of future coupons, accumulated in list order
\* from 0, with the ex-date test taken as "on or after today".
RECURSIVE DiscountedCoupons_Inclusive(_, _, _, _, _)
DiscountedCoupons_Inclusive(coupons, i, discount_curve, today, acc) ==
    IF i > Len(coupons) THEN acc
    ELSE LET c == coupons[i]
         IN  DiscountedCoupons_Inclusive(coupons, i + 1, discount_curve, today,
                 IF DateLeq(today, c.ex_date)
                 THEN RAdd(acc, RMul(CurveAt(discount_curve, c.payment_date), c.coupon_amount))
                 ELSE acc)

\* The sum over the generator of future coupons (c.ex_date > today),
\* accumulated in list order from 0.
RECURSIVE DiscountedCoupons(_, _, _, _, _)
DiscountedCoupons(coupons, i, discount_curve, today, acc) ==
    IF i > Len(coupons) THEN acc
    ELSE LET c == coupons[i]
         IN  DiscountedCoupons(coupons, i + 1, discount_curve, today,
                 IF DateLess(today, c.ex_date)
                 THEN RAdd(acc, RMul(CurveAt(discount_curve, c.payment_date), c.coupon_amount))
                 ELSE acc)

calculate_dirty_value(self, discount_curve, today) ==
    LET discounted_coupon_value ==
            DiscountedCoupons(self.coupons, 1, discount_curve, today, RInt(0))
        discounted_face_value ==
            RMul(CurveAt(discount_curve, self.maturity), self.principle)
    IN  RAdd(discounted_coupon_value, discounted_face_value)

\* construct with the two series concatenated second-anchored first.
construct_SwappedSeries(first_coupon_pay_date, second_coupon_pay_date, maturity_date, coupon_rate, principle) ==
    LET coupons_a == construct_yearly_coupon_series(first_coupon_pay_date, maturity_date,
                         RDivInt(coupon_rate, 2), principle)
        coupons_b == construct_yearly_coupon_series(second_coupon_pay_date, maturity_date,
                         RDivInt(coupon_rate, 2), principle)
    IN  IF coupons_a.kind = "raised" THEN coupons_a
        ELSE IF coupons_b.kind = "raised" THEN coupons_b
        ELSE Returned(FixedRateACGB(principle, coupons_b.value \o coupons_a.value,
                                    maturity_date))

construct(first_coupon_pay_date, second_coupon_pay_date, maturity_date, coupon_rate, principle) ==
    LET coupons_a == construct_yearly_coupon_series(first_coupon_pay_date, maturity_date,
                         RDivInt(coupon_rate, 2), principle)
        coupons_b == construct_yearly_coupon_series(second_coupon_pay_date, maturity_date,
                         RDivInt(coupon_rate, 2), principle)
    IN  IF coupons_a.kind = "raised" THEN coupons_a
        ELSE IF coupons_b.kind = "raised" THEN coupons_b
        ELSE Returned(FixedRateACGB(principle, coupons_a.value \o coupons_b.value,
                                    maturity_date))

(***************************************************************************)
(* discount_curve.py: day count, yield conversion, fit_discount_curve.     *)
(***************************************************************************)
DiscountFitOptions(knot_count, extenion_days) ==
    [knot_count |-> knot_count, extenion_days |-> extenion_days]

date_to_year_fraction_act_365(today, future_date) ==
    R(DaysBetween(future_date, today), DaysPerYear)

\* Python's pow(base, exponent) - 1 on floats, kept symbolic: a zero base
\* raises ZeroDivisionError for a negative exponent and gives 0 for a positive
\* one; a negative base gives a float for an integral exponent and a complex
\* number otherwise.
PowMinusOne(base, exponent) ==
    IF base.n = 0 /\ exponent.n < 0 THEN Raised("ZeroDivisionError")
    ELSE Returned([type |-> IF base.n < 0 /\ exponent.d # 1 THEN "complex" ELSE "float",
                   base |-> base, exponent |-> exponent])

discount_to_yield(discount, future_date, today) ==
    LET year_frac == date_to_year_fraction_act_365(today, future_date)
    IN  IF year_frac.n = 0 THEN Raised("ZeroDivisionError")
        ELSE PowMinusOne(discount, R(-year_frac.d, year_frac.n))

\* Where b goes in the maturity-sorted list, after every bond that does not
\* mature later (sorted is stable).
RECURSIVE InsertByMaturity(_, _)
InsertByMaturity(sorted, b) ==
    IF sorted = <<>> THEN <<b>>
    ELSE IF DateLess(b.maturity, Head(sorted).maturity) THEN <<b>> \o sorted
    ELSE <<Head(sorted)>> \o InsertByMaturity(Tail(sorted), b)

\* sorted(bonds, key = lambda b: b.maturity)
RECURSIVE SortByMaturity(_)
SortByMaturity(bonds) ==
    IF bonds = <<>> THEN <<>>
    ELSE InsertByMaturity(SortByMaturity(SubSeq(bonds, 1, Len(bonds) - 1)),
                          bonds[Len(bonds)])

\* The start of the curve left where the extension puts it.
ClampStart_None(curve_start, today) == curve_start

\* if curve_start < today: curve_start = today
ClampStart(curve_start, today) ==
    IF DateLess(curve_start, today) THEN today ELSE curve_start

\* numpy.linspace(start, stop, num): num samples, the last one stop itself;
\* a negative num raises ValueError.
linspace(start, stop, num) ==
    IF num < 0 THEN Raised("ValueError")
    ELSE Returned([i \in 1..num |->
             IF num = 1 THEN start
             ELSE IF i = num THEN stop
             ELSE RAdd(start, RMul(RInt(i - 1), RDivInt(RSub(stop, start), num - 1)))])

\* CubicSpline(x, y) accepts x only with at least two, strictly increasing, points.
SplineAccepts(x) ==
    /\ Len(x) >= 2
    /\ \A i \in 1..(Len(x) - 1) : RLess(x[i], x[i + 1])

FitRaised(error, at, knot_locations, knots_computed, solver_started, resid_evaluated) ==
    [kind |-> "raised", error |-> error, at |-> at, knot_locations |-> knot_locations,
     knots_computed |-> knots_computed, solver_started |-> solver_started,
     resid_evaluated |-> resid_evaluated]

\* fit_discount_curve; solver_status is the status least_squares ends with
\* (0: the evaluation limit was reached, 1 to 4: a convergence criterion was
\* met), of which the function reads nothing but the final iterate x.
fit_discount_curve(bonds, options, today, solver_status) ==
    LET sorted_bonds == SortByMaturity(bonds)
    IN  IF sorted_bonds = <<>>
        THEN FitRaised("IndexError", "sorted_bonds[0]", <<>>, FALSE, FALSE, FALSE)
        ELSE
        LET first_maturity == sorted_bonds[1].maturity
            last_maturity == sorted_bonds[Len(sorted_bonds)].maturity
            curve_start == ClampStart(AddDays(first_maturity, -options.extenion_days), today)
            curve_end == AddDays(last_maturity, options.extenion_days)
            cv_start_yr_frac == date_to_year_fraction_act_365(today, curve_start)
            cv_end_yr_frac == date_to_year_fraction_act_365(today, curve_end)
            knot_locations == linspace(cv_start_yr_frac, cv_end_yr_frac, options.knot_count)
        IN  IF knot_locations.kind = "raised"
            THEN FitRaised("ValueError", "linspace", <<>>, FALSE, FALSE, FALSE)
            ELSE IF ~SplineAccepts(knot_locations.value)
            THEN FitRaised("ValueError", "CubicSpline in _resid", knot_locations.value,
                           TRUE, TRUE, TRUE)
            ELSE [kind |-> "returned", knot_locations |-> knot_locations.value,
                  knots_computed |-> TRUE, solver_started |-> TRUE,
                  resid_evaluated |-> TRUE, solver_status |-> solver_status,
                  fitted_knots |-> [x |-> "final iterate",
                                    converged |-> solver_status > 0]]

(***************************************************************************)
(* Inputs.                                                                 *)
(***************************************************************************)
Years == BaseYear..(BaseYear + MaxYears)

InputDates ==
    {MkDate(y, md[1], md[2]) : y \in Years, md \in {<<2, 21>>, <<2, 29>>, <<5, 21>>,
                                                    <<5, 29>>, <<11, 21>>, <<11, 29>>}}
    \cap {dt \in [year : Years, month : 1..12, day : 1..31] :
            IsValidDate(dt.year, dt.month, dt.day)}

Rates == {R(1, 100), R(3, 200)}
Principles == {RInt(100), RInt(50)}

NoBond == [kind |-> "none"]
NoRet == [kind |-> "none"]

(***************************************************************************)
(* SpecSeries: one call of construct_yearly_coupon_series.                 *)
(***************************************************************************)
InitSeries ==
    /\ pc = "call"
    /\ args \in [first_pay_date : InputDates, last_pay_date : InputDates,
                 rate : Rates, principle : Principles]
    /\ bond = NoBond
    /\ ret = NoRet
    /\ assigned = RInt(0)

CallSeries ==
    /\ pc = "call"
    /\ ret' = construct_yearly_coupon_series(args.first_pay_date, args.last_pay_date,
                                             args.rate, args.principle)
    /\ pc' = "done"
    /\ UNCHANGED <<args, bond, assigned>>

NextSeries == CallSeries

SpecSeries == InitSeries /\ [][NextSeries]_vars

(***************************************************************************)
(* SpecBond: a bond built by construct, then priced and valued.            *)
(***************************************************************************)
BondDates ==
    {dt \in InputDates : <<dt.month, dt.day>> \in {<<2, 29>>, <<5, 21>>, <<11, 21>>}}

MarketPrices == {R(101066, 1000), R(105640, 1000)}

AsOfDate == MkDate(BaseYear, 7, 20)

Curves ==
    {FlatCurve(RInt(1)), FlatCurve(R(99, 100)),
     StepCurve(MkDate(BaseYear + 1, 1, 1), R(99, 100), RInt(1))}

\* The as-of dates tried on a bond: the test's date and every ex-date of the bond.
AsOfDates(self) == {AsOfDate} \cup {self.coupons[i].ex_date : i \in 1..Len(self.coupons)}

InitBond ==
    /\ pc = "new"
    /\ args \in [first_coupon_pay_date : {dt \in BondDates : dt.year = BaseYear},
                 second_coupon_pay_date : {dt \in BondDates : dt.year <= BaseYear + 1},
                 maturity_date : BondDates, coupon_rate : Rates, principle : {RInt(100)}]
    /\ bond = NoBond
    /\ ret = NoRet
    /\ assigned = RInt(0)

\* bond = FixedRateACGB.construct(...)
Construct ==
    /\ pc = "new"
    /\ LET r == construct(args.first_coupon_pay_date, args.second_coupon_pay_date,
                          args.maturity_date, args.coupon_rate, args.principle)
       IN  IF r.kind = "returned"
           THEN /\ bond' = r.value
                /\ pc' = "live"
                /\ ret' = [kind |-> "constructed"]
           ELSE /\ bond' = NoBond
                /\ pc' = "failed"
                /\ ret' = r
    /\ UNCHANGED <<args, assigned>>

\* bond.market_dirty_price = value
SetMarketDirtyPrice ==
    /\ pc = "live"
    /\ \E value \in MarketPrices :
          LET r == SetAttr(bond, "market_dirty_price", value)
          IN  /\ bond' = (IF r.kind = "returned" THEN r.value ELSE bond)
              /\ ret' = (IF r.kind = "returned"
                         THEN [kind |-> "set", name |-> "market_dirty_price"] ELSE r)
              /\ assigned' = value
    /\ UNCHANGED <<pc, args>>

\* bond.market_value = value
SetMarketValue ==
    /\ pc = "live"
    /\ \E value \in MarketPrices :
          LET r == SetAttr(bond, "market_value", value)
          IN  /\ bond' = (IF r.kind = "returned" THEN r.value ELSE bond)
              /\ ret' = (IF r.kind = "returned"
                         THEN [kind |-> "set", name |-> "market_value"] ELSE r)
    /\ UNCHANGED <<pc, args, assigned>>

\* bond.market_value and bond.market_dirty_price read
ReadPrice ==
    /\ pc = "live"
    /\ \E name \in {"market_value", "market_dirty_price"} :
          ret' = [kind |-> "get", name |-> name, value |-> GetAttr(bond, name).value]
    /\ UNCHANGED <<pc, args, bond, assigned>>

\* bond.calculate_dirty_value(discount_curve, today)
CalculateDirtyValue ==
    /\ pc = "live"
    /\ \E discount_curve \in Curves, today \in AsOfDates(bond) :
          ret' = [kind |-> "value", discount_curve |-> discount_curve, today |-> today,
                  value |-> calculate_dirty_value(bond, discount_curve, today)]
    /\ UNCHANGED <<pc, args, bond, assigned>>

NextBond ==
    \/ Construct
    \/ SetMarketDirtyPrice
    \/ SetMarketValue
    \/ ReadPrice
    \/ CalculateDirtyValue

SpecBond == InitBond /\ [][NextBond]_vars

(***************************************************************************)
(* SpecYield: one call of discount_to_yield.                               *)
(***************************************************************************)
Discounts == {R(-1, 2), RInt(0), R(1, 2), R(99, 100), RInt(1)}

InitYield ==
    /\ pc = "call"
    /\ args \in [discount : Discounts, future_date : InputDates, today : InputDates]
    /\ bond = NoBond
    /\ ret = NoRet
    /\ assigned = RInt(0)

DiscountToYield ==
    /\ pc = "call"
    /\ ret' = discount_to_yield(args.discount, args.future_date, args.today)
    /\ pc' = "done"
    /\ UNCHANGED <<args, bond, assigned>>

NextYield == DiscountToYield

SpecYield == InitYield /\ [][NextYield]_vars

(***************************************************************************)
(* SpecFit: one call of fit_discount_curve.                                *)
(***************************************************************************)
FitMaturities == {dt \in BondDates : dt.month \in {5, 11}}

\* Every list of at most n bonds maturing on the dates of FitMaturities.
RECURSIVE BondLists(_)
BondLists(n) ==
    IF n = 0 THEN {<<>>}
    ELSE BondLists(n - 1) \cup
         {Append(l, FixedRateACGB(RInt(100), <<>>, m)) :
             l \in {k \in BondLists(n - 1) : Len(k) = n - 1}, m \in FitMaturities}

FitTodays == {MkDate(BaseYear, 7, 23), MkDate(BaseYear + MaxYears + 1, 7, 23)}

SolverStatuses == 0..4

InitFit ==
    /\ pc = "call"
    /\ args \in [bonds : BondLists(MaxBonds),
                 options : {DiscountFitOptions(k, e) :
                               k \in (-1)..MaxKnots, e \in {0, DefaultExtensionDays}},
                 today : FitTodays]
    /\ bond = NoBond
    /\ ret = NoRet
    /\ assigned = RInt(0)

FitDiscountCurve ==
    /\ pc = "call"
    /\ \E solver_status \in SolverStatuses :
          ret' = fit_discount_curve(args.bonds, args.options, args.today, solver_status)
    /\ pc' = "done"
    /\ UNCHANGED <<args, bond, assigned>>

NextFit == FitDiscountCurve

SpecFit == InitFit /\ [][NextFit]_vars

(***************************************************************************)
(* Claims about construct_yearly_coupon_series (SpecSeries).               *)
(***************************************************************************)
SeriesDone == pc = "done" /\ "first_pay_date" \in DOMAIN args /\ "rate" \in DOMAIN args

\* last_pay_date is first_pay_date moved a whole number N >= 0 of years on.
WholeYearsApart(first, last) ==
    /\ first.month = last.month
    /\ first.day = last.day
    /\ last.year >= first.year

\* The i-th scheduled (unrolled) coupon date of a series starting at first.
NominalDate(first, i) == MkDate(first.year + (i - 1), first.month, first.day)

\* C2: for last_pay_date exactly N calendar years after first_pay_date the call
\* returns N + 1 coupons, each of amount principle * rate, with payment and
\* ex-dates on weekdays; for first_pay_date > last_pay_date it returns the
\* empty list.
C2_SeriesCountAndWeekdays ==
    SeriesDone =>
        /\ WholeYearsApart(args.first_pay_date, args.last_pay_date) =>
              /\ ret.kind = "returned"
              /\ Len(ret.value) = args.last_pay_date.year - args.first_pay_date.year + 1
              /\ \A i \in 1..Len(ret.value) :
                    /\ ret.value[i].coupon_amount = RMul(args.principle, args.rate)
                    /\ Weekday(ret.value[i].payment_date) <= 4
                    /\ Weekday(ret.value[i].ex_date) <= 4
        /\ DateLess(args.last_pay_date, args.first_pay_date) => ret = Returned(<<>>)

BondLive == pc = "live" /\ bond.kind = "bond"

\* The sum of term[i] over the indices in S.
RECURSIVE RSum(_, _)
RSum(S, term) ==
    IF S = {} THEN RInt(0)
    ELSE LET i == CHOOSE x \in S : TRUE
         IN  RAdd(term[i], RSum(S \ {i}, term))

\* The coupons a valuation as of today includes: ex-date strictly after today.
Included(self, today) ==
    {i \in 1..Len(self.coupons) : ToOrdinal(self.coupons[i].ex_date) > ToOrdinal(today)}

\* C1: calculate_dirty_value is the sum of curve(payment_date) * amount over
\* exactly the coupons with ex_date > today, plus curve(maturity) * principle;
\* under a flat curve k it is k * (principle + the included amounts).
C1_DirtyValue ==
    (BondLive /\ ret.kind = "value") =>
        LET inc == Included(bond, ret.today)
            n == Len(bond.coupons)
            face == RMul(CurveAt(ret.discount_curve, bond.maturity), bond.principle)
        IN  /\ ret.value =
                 RAdd(RSum(inc, [i \in 1..n |->
                          RMul(CurveAt(ret.discount_curve, bond.coupons[i].payment_date),
                               bond.coupons[i].coupon_amount)]), face)
            /\ ret.discount_curve.kind = "flat" =>
                 ret.value = RMul(ret.discount_curve.k,
                                  RAdd(bond.principle,
                                       RSum(inc, [i \in 1..n |-> bond.coupons[i].coupon_amount])))

\* A valuation as of a date that is the ex-date of one coupon (excluded) while
\* another coupon is still ahead (included).
C1_Witness ==
    /\ BondLive
    /\ ret.kind = "value"
    /\ \E i \in 1..Len(bond.coupons) : bond.coupons[i].ex_date = ret.today
    /\ Included(bond, ret.today) # {}

\* C4: the bond construct returns has as coupons the yearly series anchored at
\* the first date followed by the one anchored at the second, both running to
\* maturity and not re-sorted; every amount is principle * rate / 2; maturity
\* and principle are the arguments; and when maturity is a weekday a whole
\* number of years after the second date, the last coupon is paid on it.
C4_Construct ==
    BondLive =>
        LET a == construct_yearly_coupon_series(args.first_coupon_pay_date,
                     args.maturity_date, RDivInt(args.coupon_rate, 2), args.principle)
            b == construct_yearly_coupon_series(args.second_coupon_pay_date,
                     args.maturity_date, RDivInt(args.coupon_rate, 2), args.principle)
            n == Len(bond.coupons)
        IN  /\ a.kind = "returned" /\ b.kind = "returned"
            /\ n = Len(a.value) + Len(b.value)
            /\ SubSeq(bond.coupons, 1, Len(a.value)) = a.value
            /\ SubSeq(bond.coupons, Len(a.value) + 1, n) = b.value
            /\ \A i \in 1..n :
                  bond.coupons[i].coupon_amount =
                      RDivInt(RMul(args.principle, args.coupon_rate), 2)
            /\ bond.maturity = args.maturity_date
            /\ bond.principle = args.principle
            /\ (Weekday(args.maturity_date) <= 4
                   /\ WholeYearsApart(args.second_coupon_pay_date, args.maturity_date)) =>
                  (n > 0 /\ bond.coupons[n].payment_date = args.maturity_date)

\* A constructed bond whose maturity is a weekday a whole number of years after
\* the second date and whose coupon list is out of chronological order.
C4_Witness ==
    /\ BondLive
    /\ Weekday(args.maturity_date) <= 4
    /\ WholeYearsApart(args.second_coupon_pay_date, args.maturity_date)
    /\ \E i \in 1..(Len(bond.coupons) - 1) :
          DateLess(bond.coupons[i + 1].payment_date, bond.coupons[i].payment_date)

\* Every read of the price, through either name, gives the value of the most
\* recent assignment to market_dirty_price, 0 before the first.
C9_ReadsLatest ==
    BondLive =>
        /\ GetAttr(bond, "market_value") = Returned(assigned)
        /\ GetAttr(bond, "market_dirty_price") = Returned(assigned)
        /\ ret.kind = "get" => ret.value = assigned
        /\ ret.kind = "constructed" => GetAttr(bond, "market_value") = Returned(RInt(0))

\* No step on a live bond changes its principle, coupons or maturity.
C9_FieldsKept ==
    BondLive =>
        /\ bond'.principle = bond.principle
        /\ bond'.coupons = bond.coupons
        /\ bond'.maturity = bond.maturity

\* C9: the market dirty price is one mutable field: a new bond reads 0, both
\* read accessors return the most recently assigned value, and an assignment
\* changes no other field of the bond.
C9_PriceField == []C9_ReadsLatest /\ [][C9_FieldsKept]_vars

\* A price read through market_value after the price was assigned.
C9_Witness ==
    /\ BondLive
    /\ ret.kind = "get"
    /\ ret.name = "market_value"
    /\ assigned # RInt(0)
    /\ ret.value = assigned

(***************************************************************************)
(* Claims about discount_to_yield (SpecYield).                             *)
(***************************************************************************)
YieldDone == pc = "done" /\ "discount" \in DOMAIN args

\* C8: discount_to_yield ends in a domain error whenever future_date = today,
\* discount = 0 or discount < 0, and otherwise returns
\* discount^(-1/t) - 1 with t = (future_date - today).days / 365.
C8_YieldDomain ==
    YieldDone =>
        LET days == DaysBetween(args.future_date, args.today)
        IN  IF days = 0 \/ args.discount.n <= 0
            THEN ret.kind = "raised"
            ELSE ret = Returned([type |-> "float", base |-> args.discount,
                                 exponent |-> R(-DaysPerYear, days)])

(***************************************************************************)
(* Claims about fit_discount_curve (SpecFit).                              *)
(***************************************************************************)
FitDone == pc = "done" /\ "bonds" \in DOMAIN args

\* C5: with an empty bond list the call fails with an explicit empty-input
\* error, not with an indexing fault, and returns no curve.
C5_EmptyBondSet ==
    (FitDone /\ args.bonds = <<>>) =>
        /\ ret.kind = "raised"
        /\ ret.error # "IndexError"

\* C6: a curve is never returned from a solver run that stopped on its
\* evaluation limit without converging.
C6_NoCurveWithoutConvergence ==
    (FitDone /\ ret.kind = "returned") => ret.solver_status > 0

\* C7: with knot_count < 2 and a non-empty bond list the call fails on a check
\* of the options, before knot locations are computed, before the residual
\* function is evaluated and before the solver is started.
C7_DegenerateOptionsFailFast ==
    (FitDone /\ args.bonds # <<>> /\ args.options.knot_count < 2) =>
        /\ ret.kind = "raised"
        /\ ~ret.knots_computed
        /\ ~ret.resid_evaluated
        /\ ~ret.solver_started

\* The calls C10 is about: a non-empty bond list, at least two knots, a
\* non-negative extension.
C10_Case ==
    /\ FitDone
    /\ args.bonds # <<>>
    /\ args.options.knot_count >= 2
    /\ args.options.extenion_days >= 0

Maturities == {ToOrdinal(args.bonds[i].maturity) : i \in 1..Len(args.bonds)}
MinOf(S) == CHOOSE x \in S : \A y \in S : x <= y
MaxOf(S) == CHOOSE x \in S : \A y \in S : x >= y

\* Days from today to the start of the curve: the earliest maturity less the
\* extension, but never before today.
StartDays ==
    LET d == MinOf(Maturities) - args.options.extenion_days - ToOrdinal(args.today)
    IN  IF d < 0 THEN 0 ELSE d

\* Days from today to the end of the curve: the latest maturity plus the extension.
EndDays == MaxOf(Maturities) + args.options.extenion_days - ToOrdinal(args.today)

\* knot_count equally spaced knots from the start fraction to the end fraction.
C10_Spacing ==
    LET x == ret.knot_locations
        k == args.options.knot_count
    IN  /\ Len(x) = k
        /\ x[1] = R(StartDays, DaysPerYear)
        /\ x[k] = R(EndDays, DaysPerYear)
        /\ \A i \in 1..(k - 1) :
              RSub(x[i + 1], x[i]) = R(EndDays - StartDays, DaysPerYear * (k - 1))
        /\ ~RLess(x[1], RInt(0))

\* C10 as stated: the knots are equally spaced from the start fraction to the
\* end fraction, the first is not negative, and they ascend.
C10_KnotsAscending ==
    C10_Case =>
        /\ C10_Spacing
        /\ \A i \in 1..(Len(ret.knot_locations) - 1) :
              RLeq(ret.knot_locations[i], ret.knot_locations[i + 1])

\* C10 amended: the knots are equally spaced from the start fraction to the
\* end fraction and the first is not negative; they ascend when today is not
\* after the latest maturity plus the extension, and strictly descend from 0
\* when it is.
C10_KnotsMonotone ==
    C10_Case =>
        /\ C10_Spacing
        /\ EndDays >= StartDays =>
              \A i \in 1..(Len(ret.knot_locations) - 1) :
                  RLeq(ret.knot_locations[i], ret.knot_locations[i + 1])
        /\ EndDays < StartDays =>
              /\ ret.knot_locations[1] = RInt(0)
              /\ \A i \in 1..(Len(ret.knot_locations) - 1) :
                    RLess(ret.knot_locations[i + 1], ret.knot_locations[i])

\* A fit over two bonds given latest maturity first, whose curve start was
\* clamped to today and whose three or more knots strictly ascend.
C10_Witness ==
    /\ C10_Case
    /\ Len(args.bonds) >= 2
    /\ DateLess(args.bonds[2].maturity, args.bonds[1].maturity)
    /\ MinOf(Maturities) - args.options.extenion_days < ToOrdinal(args.today)
    /\ Len(ret.knot_locations) >= 3
    /\ RLess(ret.knot_locations[1], ret.knot_locations[2])

====
